---- MODULE Spec2Model ----
(***************************************************************************)
(* The Remo backend (src/main.py): the tasks and push_tokens tables, the   *)
(* task and push-token endpoints and the reminder scheduler.               *)
(*                                                                         *)
(* Text is a sequence of character codes, so that what the code does on    *)
(* text (slicing, SQLite's bytewise comparison, json.dumps, isoformat) is  *)
(* modelled on the characters.  A SQL table is the sequence of its rows    *)
(* in rowid order.                                                         *)
(*                                                                         *)
(* The second part is the agent loop of /execute/think (src/agents.py,     *)
(* src/tools.py) and the recording session of /ws/record; what the model   *)
(* answers, the urls and the page contents are opaque there and are plain  *)
(* strings.                                                                *)
(***************************************************************************)
EXTENDS Integers, Sequences, FiniteSets, TLC

VARIABLES tasks, push_tokens, now, started, sched, wakeAt, ticks,
          due_reminders, sent, retried, hashed, last

\* The scheduler's pass taken statement by statement, and the tasks a send
\* has succeeded for.
VARIABLES cursor_i, delivered

\* One /execute/think request: the loop agent, the planner and the browser
\* tool.
VARIABLES tpc, times_looped, runs, llm_calls, escalate, page_observation,
          tool_result, prompt, last_response, final_result, finish_reason,
          bpc, tool_url, tool_failed_at

\* One /ws/record session.
VARIABLES rpc, rec_task, script, rec_browser, ws_sent

passVars == <<cursor_i, delivered>>

agentVars == <<tpc, times_looped, runs, llm_calls, escalate, page_observation,
               tool_result, prompt, last_response, final_result, finish_reason,
               bpc, tool_url, tool_failed_at, rpc, rec_task, script, rec_browser,
               ws_sent>>

thinkVars == <<tpc, times_looped, runs, llm_calls, escalate, page_observation,
               tool_result, prompt, last_response, final_result, finish_reason,
               bpc, tool_url, tool_failed_at>>

recVars == <<rpc, rec_task, script, rec_browser, ws_sent>>

storeVars == <<tasks, push_tokens, now, started, sched, wakeAt, ticks,
               due_reminders, sent, retried, hashed, last>>

vars == <<storeVars, passVars, agentVars>>

(***************************************************************************)
(* Bounds of the model.                                                    *)
(***************************************************************************)
MaxTasks == 2       \* create requests accepted in one run
MaxTime  == 120     \* the clock stops here (seconds after the first instant)
TimeStep == 60      \* granularity of the clock (seconds)

(***************************************************************************)
(* Program constants.                                                      *)
(***************************************************************************)
IdDigits == 8       \* str(hash(...))[:8]
Period   == 60      \* repeat_every(seconds=60, ...)

(***************************************************************************)
(* Text.                                                                   *)
(***************************************************************************)
NULL == <<-1>>      \* SQL NULL / Python None: no text has a code below 0

Min(S) == CHOOSE x \in S : \A y \in S : x <= y

Digit(d) == 48 + d
Digits(ds) == [i \in DOMAIN ds |-> Digit(ds[i])]
TwoDigits(n) == <<Digit(n \div 10), Digit(n % 10)>>

\* s[:n]
Slice(s, n) == SubSeq(s, 1, IF Len(s) < n THEN Len(s) ELSE n)

\* SQLite's comparison of two TEXT values under the BINARY collation
\* (memcmp, then the shorter one first).
TextLE(a, b) ==
    LET n == IF Len(a) < Len(b) THEN Len(a) ELSE Len(b)
        diff == {i \in 1..n : a[i] # b[i]}
    IN  IF diff = {} THEN Len(a) <= Len(b) ELSE a[Min(diff)] < b[Min(diff)]

\* "<= ?" in a WHERE clause: NULL compares to nothing.
SqlLE(a, b) == a # NULL /\ b # NULL /\ TextLE(a, b)

\* datetime.isoformat() of the wall-clock time t (seconds into the day) at
\* the UTC offset of off hours: "2025-01-01T00:01:30+00:00".  The clock of
\* the model has whole seconds, for which isoformat() writes no fraction.
DatePrefix == <<50, 48, 50, 53, 45, 48, 49, 45, 48, 49, 84>>
IsoFormatAt(t, off) ==
    DatePrefix \o TwoDigits(t \div 3600) \o <<58>> \o TwoDigits((t % 3600) \div 60)
      \o <<58>> \o TwoDigits(t % 60)
      \o <<IF off < 0 THEN 45 ELSE 43>> \o TwoDigits(IF off < 0 THEN -off ELSE off)
      \o <<58, 48, 48>>

\* datetime.now(timezone.utc).isoformat()
IsoFormat(t) == IsoFormatAt(t, 0)

(***************************************************************************)
(* Inputs of the requests.                                                 *)
(***************************************************************************)
\* str(hash(title + str(datetime.now()))): the decimal text of a 64-bit
\* hash, seeded per process.  Each call hashes another text (the time is in
\* it): a call yields any of these that no call before it yielded (hashed).
HashTexts == { Digits(<<1, 2, 3, 4, 5, 6, 7, 8, 9, 0, 1>>),
               Digits(<<1, 2, 3, 4, 5, 6, 7, 8, 2, 2, 2>>),
               <<45>> \o Digits(<<8, 7, 6, 5, 4, 3, 2, 1, 0, 9>>) }

\* The due_time texts of the create requests below, as wall-clock seconds
\* and UTC offset in hours; the instant one denotes is wall - 3600 * off.
DueStamps == { [wall |-> 30, off |-> 0],
               [wall |-> 90, off |-> 0],
               [wall |-> 3630, off |-> 1] }

\* The instant a due_time text denotes (seconds on the model's clock).
Instant(text) ==
    LET d == CHOOSE d \in DueStamps : IsoFormatAt(d.wall, d.off) = text
    IN  d.wall - 3600 * d.off

(***************************************************************************)
(* The tables.                                                             *)
(***************************************************************************)
Range(s) == {s[i] : i \in DOMAIN s}
Ids(table) == {r.id : r \in Range(table)}

\* The columns of tasks that a handler reads or writes after the INSERT;
\* the others (notes, url, repeat_rule, ...) are stored and never used.
TaskRow(id, req) ==
    [id |-> id, user_id |-> req.user_id, title |-> req.title,
     due_time |-> req.due_time, status |-> "pending",
     action_plan_json |-> NULL, training_transcript |-> NULL]

CreateTaskRequests ==
    { [user_id |-> "u1", title |-> "a", due_time |-> IsoFormatAt(30, 0)],
      [user_id |-> "u2", title |-> "a", due_time |-> IsoFormatAt(3630, 1)],
      [user_id |-> "u1", title |-> "b", due_time |-> NULL],
      [user_id |-> "u2", title |-> "b", due_time |-> IsoFormatAt(90, 0)] }

\* new_task_id = "task_" + str(hash(...))[:8]
TaskPrefix == <<116, 97, 115, 107, 95>>
NewTaskId(hashText) == TaskPrefix \o Slice(hashText, IdDigits)

\* What the last request was and what it answered: the operation, the task
\* id in it, the HTTP status, and for complete_training the status the task
\* had before.  NoResponse after a step that is no request.
NoResponse == [op |-> "none", id |-> NULL, code |-> 0, was |-> "none"]

\* A value of the agent part: a tool's result, a model response, a text.
\* Unset before the request has made it, Empty the empty string.
Obs(kind, val) == [kind |-> kind, val |-> val]

Unset == Obs("unset", "")

Empty == Obs("text", "")

Init ==
    /\ tasks = <<>>
    /\ push_tokens = <<>>
    /\ now = 0
    /\ started = FALSE
    /\ sched = "off"
    /\ wakeAt = 0
    /\ ticks = 0
    /\ due_reminders = <<>>
    /\ sent = <<>>
    /\ retried = {}
    /\ hashed = {}
    /\ last = NoResponse
    /\ cursor_i = 0
    /\ delivered = {}
    /\ tpc = "idle"
    /\ times_looped = 0
    /\ runs = 0
    /\ llm_calls = 0
    /\ escalate = FALSE
    /\ page_observation = Unset
    /\ tool_result = Unset
    /\ prompt = [page_observation |-> Unset, history |-> Unset]
    /\ last_response = Unset
    /\ final_result = Unset
    /\ finish_reason = ""
    /\ bpc = "idle"
    /\ tool_url = ""
    /\ tool_failed_at = "none"
    /\ rpc = "idle"
    /\ rec_task = ""
    /\ script = "unread"
    /\ rec_browser = "none"
    /\ ws_sent = <<>>

\* lifespan: init_db() creates the two tables if they do not exist.
Lifespan ==
    /\ ~started
    /\ started' = TRUE
    /\ last' = NoResponse
    /\ UNCHANGED <<tasks, push_tokens, now, sched, wakeAt, ticks,
                   due_reminders, sent, retried, hashed>>
    /\ UNCHANGED <<passVars, agentVars>>

\* INSERT INTO tasks: id is the PRIMARY KEY, a second row with the id of a
\* stored one raises IntegrityError and nothing is written.
InsertTask(table, row) ==
    IF row.id \in Ids(table) THEN table ELSE Append(table, row)

\* POST /tasks
create_task(req, hashText) ==
    LET new_task == TaskRow(NewTaskId(hashText), req)
        conflict == new_task.id \in Ids(tasks)
    IN  /\ started
        /\ Len(tasks) < MaxTasks
        /\ hashText \notin hashed
        /\ hashed' = hashed \cup {hashText}
        /\ tasks' = InsertTask(tasks, new_task)
        /\ last' = [op |-> "create_task", id |-> new_task.id,
                    code |-> IF conflict THEN 500 ELSE 200, was |-> "none"]
        /\ UNCHANGED <<push_tokens, now, started, sched, wakeAt, ticks,
                       due_reminders, sent, retried>>
        /\ UNCHANGED <<passVars, agentVars>>

\* json.dumps(action_plan) of a list of strings: ["c", "t"]
RECURSIVE JoinQuoted(_)
JoinQuoted(items) ==
    IF items = <<>> THEN <<>>
    ELSE <<34>> \o Head(items) \o <<34>>
           \o (IF Tail(items) = <<>> THEN <<>> ELSE <<44, 32>>)
           \o JoinQuoted(Tail(items))
JsonDumps(action_plan) == <<91>> \o JoinQuoted(action_plan) \o <<93>>

TrainingPayloads ==
    { [action_plan |-> <<>>, transcript |-> <<120>>],
      [action_plan |-> << <<99>>, <<116>> >>, transcript |-> <<121>>] }
TaskIdInputs == {NewTaskId(h) : h \in HashTexts} \cup { <<110, 111>> }

\* Mutants of UpdateTraining: one that puts the task back to 'pending', one
\* without the WHERE clause, one that trains pending tasks only.
UpdateTraining_ResetsPending(table, task_id, action_plan_str, transcript) ==
    [rows |-> [i \in DOMAIN table |->
                 IF table[i].id = task_id
                 THEN [table[i] EXCEPT !.action_plan_json = action_plan_str,
                                       !.training_transcript = transcript,
                                       !.status = "pending"]
                 ELSE table[i]],
     rowcount |-> Cardinality({i \in DOMAIN table : table[i].id = task_id})]

UpdateTraining_NoWhere(table, task_id, action_plan_str, transcript) ==
    [rows |-> [i \in DOMAIN table |->
                 [table[i] EXCEPT !.action_plan_json = action_plan_str,
                                  !.training_transcript = transcript,
                                  !.status = "trained"]],
     rowcount |-> Len(table)]

UpdateTraining_OnlyPending(table, task_id, action_plan_str, transcript) ==
    [rows |-> [i \in DOMAIN table |->
                 IF table[i].id = task_id /\ table[i].status = "pending"
                 THEN [table[i] EXCEPT !.action_plan_json = action_plan_str,
                                       !.training_transcript = transcript,
                                       !.status = "trained"]
                 ELSE table[i]],
     rowcount |-> Cardinality({i \in DOMAIN table :
                                 table[i].id = task_id /\ table[i].status = "pending"})]

\* UPDATE tasks SET action_plan_json = ?, training_transcript = ?,
\*   status = 'trained' WHERE id = ?
\* The rows after it and cursor.rowcount, the number of rows it matched.
UpdateTraining(table, task_id, action_plan_str, transcript) ==
    [rows |-> [i \in DOMAIN table |->
                 IF table[i].id = task_id
                 THEN [table[i] EXCEPT !.action_plan_json = action_plan_str,
                                       !.training_transcript = transcript,
                                       !.status = "trained"]
                 ELSE table[i]],
     rowcount |-> Cardinality({i \in DOMAIN table : table[i].id = task_id})]

StatusOf(table, task_id) ==
    IF task_id \in Ids(table)
    THEN (CHOOSE r \in Range(table) : r.id = task_id).status
    ELSE "none"

\* POST /tasks/{task_id}/complete_training
complete_task_training(task_id, action_plan, transcript) ==
    LET updated == UpdateTraining(tasks, task_id, JsonDumps(action_plan), transcript)
    IN  /\ started
        /\ IF updated.rowcount = 0
           THEN \* db.close() without db.commit(), HTTPException(404)
                /\ tasks' = tasks
                /\ last' = [op |-> "complete_training", id |-> task_id,
                            code |-> 404, was |-> "none"]
           ELSE \* db.commit()
                /\ tasks' = updated.rows
                /\ last' = [op |-> "complete_training", id |-> task_id,
                            code |-> 200, was |-> StatusOf(tasks, task_id)]
        /\ UNCHANGED <<push_tokens, now, started, sched, wakeAt, ticks,
                       due_reminders, sent, retried, hashed>>
        /\ UNCHANGED <<passVars, agentVars>>

\* Mutant of InsertOrReplaceToken: a plain insert that replaces nothing.
InsertOrReplaceToken_Insert(table, user_id, token) ==
    Append(table, [user_id |-> user_id, token |-> token])

\* INSERT OR REPLACE INTO push_tokens (user_id, token): user_id is the
\* PRIMARY KEY, the row in conflict is deleted and the new one inserted.
InsertOrReplaceToken(table, user_id, token) ==
    Append(SelectSeq(table, LAMBDA r : r.user_id # user_id),
           [user_id |-> user_id, token |-> token])

PushTokenRequests ==
    { [user_id |-> "u1", token |-> "k1"],
      [user_id |-> "u1", token |-> "k2"],
      [user_id |-> "u2", token |-> "k1"] }

\* POST /register-push-token
register_push_token(user_id, token) ==
    /\ started
    /\ push_tokens' = InsertOrReplaceToken(push_tokens, user_id, token)
    /\ last' = [op |-> "register_push_token", id |-> NULL, code |-> 200, was |-> "none"]
    /\ UNCHANGED <<tasks, now, started, sched, wakeAt, ticks,
                   due_reminders, sent, retried, hashed>>
    /\ UNCHANGED <<passVars, agentVars>>

\* Mutant of SelectDue: the query leaves out the notified tasks only.
SelectDue_NotNotified(table, current_time_iso) ==
    LET rows == SelectSeq(table, LAMBDA r : SqlLE(r.due_time, current_time_iso)
                                              /\ r.status # "notified")
    IN  [i \in DOMAIN rows |->
           [id |-> rows[i].id, user_id |-> rows[i].user_id, title |-> rows[i].title]]

\* Mutant of SelectDue: the query does not look at the status.
SelectDue_AnyStatus(table, current_time_iso) ==
    LET rows == SelectSeq(table, LAMBDA r : SqlLE(r.due_time, current_time_iso))
    IN  [i \in DOMAIN rows |->
           [id |-> rows[i].id, user_id |-> rows[i].user_id, title |-> rows[i].title]]

\* SELECT id, user_id, title FROM tasks
\*   WHERE due_time <= ? AND status = 'pending'
SelectDue(table, current_time_iso) ==
    LET rows == SelectSeq(table, LAMBDA r : SqlLE(r.due_time, current_time_iso)
                                              /\ r.status = "pending")
    IN  [i \in DOMAIN rows |->
           [id |-> rows[i].id, user_id |-> rows[i].user_id, title |-> rows[i].title]]

\* SELECT token FROM push_tokens WHERE user_id = ?   (fetchall)
SelectToken(table, user_id) == SelectSeq(table, LAMBDA r : r.user_id = user_id)

\* Mutant of UpdateNotified: the update is lost.
UpdateNotified_Lost(table, task_id) == table

\* UPDATE tasks SET status = 'notified' WHERE id = ?
UpdateNotified(table, task_id) ==
    [i \in DOMAIN table |->
        IF table[i].id = task_id THEN [table[i] EXCEPT !.status = "notified"]
        ELSE table[i]]

\* messaging.Message(notification=Notification(title=..., body=title),
\* token=push_token) as the provider receives it; task_id names the pass of
\* the loop that sent it and ok says whether messaging.send returned.
Message(task_id, title, push_token, ok) ==
    [task_id |-> task_id, body |-> title, token |-> push_token, ok |-> ok]

\* Mutants of ReminderStep: one that marks a task notified though its owner
\* has no token, one that marks it notified though the send failed.
ReminderStep_NoTokenNotified(st, r, ok) ==
    LET token_row == SelectToken(push_tokens, r.user_id)
    IN  IF token_row = <<>>
        THEN [sent |-> st.sent, tasks |-> UpdateNotified(st.tasks, r.id)]
        ELSE [sent  |-> Append(st.sent, Message(r.id, r.title, token_row[1].token, ok)),
              tasks |-> IF ok THEN UpdateNotified(st.tasks, r.id) ELSE st.tasks]

ReminderStep_NotifiedOnFailure(st, r, ok) ==
    LET token_row == SelectToken(push_tokens, r.user_id)
    IN  IF token_row = <<>> THEN st
        ELSE [sent  |-> Append(st.sent, Message(r.id, r.title, token_row[1].token, ok)),
              tasks |-> UpdateNotified(st.tasks, r.id)]

\* One pass of "for task_id, user_id, title in due_reminders": the token is
\* fetched with fetchone(), the first row.
ReminderStep(st, r, ok) ==
    LET token_row == SelectToken(push_tokens, r.user_id)
    IN  IF token_row = <<>> THEN st
        ELSE [sent  |-> Append(st.sent, Message(r.id, r.title, token_row[1].token, ok)),
              tasks |-> IF ok THEN UpdateNotified(st.tasks, r.id) ELSE st.tasks]

\* Mutant of ReminderLoop: the first send that fails ends the loop.
RECURSIVE ReminderLoop_StopsAtFailure(_, _, _, _)
ReminderLoop_StopsAtFailure(st, due, oks, i) ==
    IF i > Len(due) THEN st
    ELSE IF ~oks[i] THEN ReminderStep(st, due[i], oks[i])
    ELSE ReminderLoop_StopsAtFailure(ReminderStep(st, due[i], oks[i]), due, oks, i + 1)

\* The loop over due_reminders; oks[i] is whether the i-th send succeeds.
RECURSIVE ReminderLoop(_, _, _, _)
ReminderLoop(st, due, oks, i) ==
    IF i > Len(due) THEN st
    ELSE ReminderLoop(ReminderStep(st, due[i], oks[i]), due, oks, i + 1)

\* The decorated check_reminders() is called: repeat_every starts its loop,
\* which with wait_first=True sleeps one period before the first pass.
\* Nothing in main.py calls it; the lifespan does not.
RepeatEvery ==
    /\ started
    /\ sched = "off"
    /\ sched' = "sleeping"
    /\ wakeAt' = now + Period
    /\ last' = NoResponse
    /\ UNCHANGED <<tasks, push_tokens, now, started, ticks,
                   due_reminders, sent, retried, hashed>>
    /\ UNCHANGED <<passVars, agentVars>>

\* One pass of check_reminders, then the sleep of one period.  due_reminders
\* and sent keep what the pass fetched and what it handed to the provider;
\* retried keeps the tasks whose send failed in the pass before and that
\* this pass sent again.
check_reminders ==
    LET due == SelectDue(tasks, IsoFormat(now))
    IN  /\ sched = "sleeping"
        /\ now >= wakeAt
        /\ due_reminders' = due
        /\ IF due = <<>>
           THEN /\ tasks' = tasks
                /\ sent' = <<>>
           ELSE \E oks \in [DOMAIN due -> BOOLEAN] :
                  LET st == ReminderLoop([sent |-> <<>>, tasks |-> tasks], due, oks, 1)
                  IN  /\ tasks' = st.tasks
                      /\ sent' = st.sent
        /\ retried' = {m.task_id : m \in {x \in Range(sent) : ~x.ok}}
                         \cap {m.task_id : m \in Range(sent')}
        /\ delivered' = delivered \cup {m.task_id : m \in {x \in Range(sent') : x.ok}}
        /\ ticks' = ticks + 1
        /\ wakeAt' = now + Period
        /\ last' = [NoResponse EXCEPT !.op = "check_reminders"]
        /\ UNCHANGED <<push_tokens, now, started, sched, hashed>>
        /\ UNCHANGED <<cursor_i, agentVars>>

\* Time passes; the clock counts the seconds since the service started.
AdvanceTime ==
    /\ started
    /\ now + TimeStep <= MaxTime
    /\ now' = now + TimeStep
    /\ last' = NoResponse
    /\ UNCHANGED <<tasks, push_tokens, started, sched, wakeAt, ticks,
                   due_reminders, sent, retried, hashed>>
    /\ UNCHANGED <<passVars, agentVars>>

Next ==
    \/ Lifespan
    \/ \E req \in CreateTaskRequests, h \in HashTexts : create_task(req, h)
    \/ \E id \in TaskIdInputs, p \in TrainingPayloads :
          complete_task_training(id, p.action_plan, p.transcript)
    \/ \E r \in PushTokenRequests : register_push_token(r.user_id, r.token)
    \/ RepeatEvery
    \/ check_reminders
    \/ AdvanceTime

Spec == Init /\ [][Next]_vars

(***************************************************************************)
(* The pass of check_reminders statement by statement.  check_reminders    *)
(* has no await, so inside one server process nothing runs between its     *)
(* statements; it blocks in messaging.send, though, and every process      *)
(* started on the same remo.db (a second worker of the server) serves its  *)
(* requests meanwhile.  SpecRace is the scheduler of one process with the  *)
(* requests served by another.                                             *)
(***************************************************************************)
RaceRequests ==
    {req \in CreateTaskRequests : req.due_time # NULL /\ Instant(req.due_time) <= MaxTime}

RacePayloads == {p \in TrainingPayloads : p.action_plan # <<>>}

\* cursor.execute("SELECT id, user_id, title ...") and fetchall(); with no
\* row the pass is over.  retried is followed under Spec only.
PassBegin ==
    LET due == SelectDue(tasks, IsoFormat(now))
    IN  /\ sched = "sleeping"
        /\ now >= wakeAt
        /\ cursor_i = 0
        /\ due_reminders' = due
        /\ sent' = <<>>
        /\ cursor_i' = IF due = <<>> THEN 0 ELSE 1
        /\ ticks' = IF due = <<>> THEN ticks + 1 ELSE ticks
        /\ wakeAt' = IF due = <<>> THEN now + Period ELSE wakeAt
        /\ last' = [NoResponse EXCEPT !.op = "check_reminders"]
        /\ UNCHANGED <<tasks, push_tokens, now, started, sched, retried, hashed,
                       delivered>>
        /\ UNCHANGED agentVars

\* One pass of the for loop, on the tables as they are now; after the last
\* one the connection is closed and the period's sleep begins.
PassStep(ok) ==
    LET r  == due_reminders[cursor_i]
        st == ReminderStep([sent |-> sent, tasks |-> tasks], r, ok)
        at_end == cursor_i = Len(due_reminders)
    IN  /\ cursor_i > 0
        /\ tasks' = st.tasks
        /\ sent' = st.sent
        /\ delivered' = delivered \cup {m.task_id : m \in {x \in Range(sent') : x.ok}}
        /\ cursor_i' = IF at_end THEN 0 ELSE cursor_i + 1
        /\ ticks' = IF at_end THEN ticks + 1 ELSE ticks
        /\ wakeAt' = IF at_end THEN now + Period ELSE wakeAt
        /\ last' = [NoResponse EXCEPT !.op = "check_reminders"]
        /\ UNCHANGED <<push_tokens, now, started, sched, due_reminders, retried, hashed>>
        /\ UNCHANGED agentVars

NextRace ==
    \/ Lifespan
    \/ \E req \in RaceRequests, h \in HashTexts : create_task(req, h)
    \/ \E id \in TaskIdInputs, p \in RacePayloads :
          complete_task_training(id, p.action_plan, p.transcript)
    \/ \E r \in PushTokenRequests : register_push_token(r.user_id, r.token)
    \/ RepeatEvery
    \/ PassBegin
    \/ \E ok \in BOOLEAN : PassStep(ok)
    \/ AdvanceTime

SpecRace == Init /\ [][NextRace]_vars

(***************************************************************************)
(* /execute/think: thinker_agent is a LoopAgent over planner_agent, an     *)
(* LlmAgent with the tools use_browser_and_get_content and finish_task.    *)
(* One run of planner_agent calls the model until it answers with text:    *)
(* after a tool call the tool's result is appended to the conversation and *)
(* the model is called again.                                              *)
(***************************************************************************)
MaxIterations == 5

\* The model calls one request is followed for.
MaxLlmCalls == 7

Urls == {"x", "y"}

Texts == {"t", "r"}

Reasons == {"r"}

\* What the model can answer: a text, or a call of one of the two tools.
Responses ==
    {Obs("text", t) : t \in Texts} \cup {Obs("fetch", u) : u \in Urls}
        \cup {Obs("finish", r) : r \in Reasons}

DefaultResult == Obs("text", "Thinker agent finished without a final text response.")

\* The awaits of use_browser_and_get_content, in order.
BrowserStages == <<"async_playwright", "launch", "new_page", "goto", "content", "close">>

StageAfter(stages, stage) ==
    stages[(CHOOSE i \in DOMAIN stages : stages[i] = stage) + 1]

\* Mutant of ToolResult: browser.close() is outside the try block, an
\* exception of it leaves the tool.
ToolResult_CloseOutsideTry(url, failed_at) ==
    IF failed_at = "none" THEN Obs("success", url)
    ELSE IF failed_at = "close" THEN Obs("raised", failed_at)
    ELSE Obs("error", failed_at)

\* What use_browser_and_get_content hands back when the await failed_at
\* raised ("none": no await raised): the page content of url, or the
\* message of the exception.
ToolResult(url, failed_at) ==
    IF failed_at = "none" THEN Obs("success", url) ELSE Obs("error", failed_at)

\* Mutants of LoopContinues: one run more, one run fewer, and a loop that
\* does not look at escalate.
LoopContinues_OneMore(escalated, looped) == ~escalated /\ looped <= MaxIterations

LoopContinues_OneFewer(escalated, looped) == ~escalated /\ looped < MaxIterations - 1

LoopContinues_IgnoresEscalate(escalated, looped) == looped < MaxIterations

\* LoopAgent: another run of the sub-agent is started unless an event of the
\* last run had actions.escalate or max_iterations runs are done.
LoopContinues(escalated, looped) == ~escalated /\ looped < MaxIterations

\* The handler creates the session, state page_observation "", and starts
\* the runner with the message "Start task.".
execute_thinker_task ==
    /\ tpc = "idle"
    /\ tpc' = "llm"
    /\ page_observation' = Empty
    /\ final_result' = DefaultResult
    /\ runs' = 1
    /\ UNCHANGED <<times_looped, llm_calls, escalate, tool_result, prompt,
                   last_response, finish_reason, bpc, tool_url, tool_failed_at>>
    /\ UNCHANGED <<storeVars, passVars, recVars>>

\* The end of one run of planner_agent: the loop agent returns, or counts
\* the run and starts the next.  At "done" the handler returns status
\* "completed" with final_result.
EndOfRun ==
    LET looped == IF escalate THEN times_looped ELSE times_looped + 1
        again  == LoopContinues(escalate, looped)
    IN  /\ times_looped' = looped
        /\ runs' = IF again THEN runs + 1 ELSE runs
        /\ tpc' = IF again THEN "llm" ELSE "done"

\* One call of the model by planner_agent.  The instruction is rendered with
\* the session state's page_observation; the conversation holds the last
\* tool result.  A text is the run's final response: the handler keeps it
\* as final_result.  finish_task sets actions.escalate on its result event;
\* the loop agent returns at that event or, in later releases of the
\* library, when the run has ended.
PlannerCall(resp) ==
    /\ tpc = "llm"
    /\ llm_calls < MaxLlmCalls
    /\ llm_calls' = llm_calls + 1
    /\ prompt' = [page_observation |-> page_observation, history |-> tool_result]
    /\ last_response' = resp
    /\ CASE resp.kind = "text" ->
              /\ final_result' = Obs("text", resp.val)
              /\ EndOfRun
              /\ UNCHANGED <<escalate, tool_result, finish_reason, bpc, tool_url>>
         [] resp.kind = "fetch" ->
              /\ tpc' = "tool"
              /\ bpc' = BrowserStages[1]
              /\ tool_url' = resp.val
              /\ UNCHANGED <<times_looped, runs, escalate, tool_result,
                             final_result, finish_reason>>
         [] resp.kind = "finish" ->
              /\ escalate' = TRUE
              /\ tool_result' = Obs("finished", resp.val)
              /\ finish_reason' = resp.val
              /\ \E at_event \in BOOLEAN : tpc' = IF at_event THEN "done" ELSE "llm"
              /\ UNCHANGED <<times_looped, runs, final_result, bpc, tool_url>>
    /\ UNCHANGED <<page_observation, tool_failed_at>>
    /\ UNCHANGED <<storeVars, passVars, recVars>>

\* An await of use_browser_and_get_content returns.
BrowserAdvance ==
    /\ tpc = "tool"
    /\ bpc # BrowserStages[Len(BrowserStages)]
    /\ bpc' = StageAfter(BrowserStages, bpc)
    /\ UNCHANGED <<tpc, times_looped, runs, llm_calls, escalate, page_observation,
                   tool_result, prompt, last_response, final_result,
                   finish_reason, tool_url, tool_failed_at>>
    /\ UNCHANGED <<storeVars, passVars, recVars>>

\* use_browser_and_get_content returns: an await raised, or the last one
\* returned.  The result goes into the conversation; nothing writes it to
\* the session state.
BrowserReturn(failed) ==
    /\ tpc = "tool"
    /\ failed \/ bpc = BrowserStages[Len(BrowserStages)]
    /\ tool_failed_at' = IF failed THEN bpc ELSE "none"
    /\ tool_result' = ToolResult(tool_url, tool_failed_at')
    /\ bpc' = "idle"
    /\ tpc' = "llm"
    /\ UNCHANGED <<times_looped, runs, llm_calls, escalate, page_observation,
                   prompt, last_response, final_result, finish_reason, tool_url>>
    /\ UNCHANGED <<storeVars, passVars, recVars>>

NextThink ==
    \/ execute_thinker_task
    \/ \E resp \in Responses : PlannerCall(resp)
    \/ BrowserAdvance
    \/ \E failed \in BOOLEAN : BrowserReturn(failed)

SpecThink == Init /\ [][NextThink]_vars

(***************************************************************************)
(* /ws/record: websocket_record_session accepts the socket and awaits      *)
(* start_interactive_session, whose exceptions it logs.                    *)
(***************************************************************************)
\* The events of one session that are followed.
MaxEvents == 3

RecordTaskIds == {"task_1", "task_2"}

\* The awaits of start_interactive_session inside "async with
\* async_playwright()", in order.
RecordStages == <<"launch", "new_page", "expose_function", "goto", "evaluate_rrweb",
                  "evaluate_record", "wait_for_event">>

\* Mutant of ExitPlaywright: leaving the block leaves the browser as it is.
ExitPlaywright_Leak(browser) == browser

\* Leaving "async with async_playwright()", by return or by exception, stops
\* the driver, which closes the browsers launched through it.
ExitPlaywright(browser) == IF browser = "open" THEN "closed" ELSE browser

\* Mutant of AfterMissingScript: the branch does not return.
AfterMissingScript_FallsThrough == RecordStages[1]

\* except FileNotFoundError: the error is sent, then "return".
AfterMissingScript == "returned"

\* websocket.send_text of one message; ok is whether it returned.
SendText(log, kind, ok) == Append(log, [kind |-> kind, ok |-> ok])

\* The socket of /ws/record/{task_id}/{user_id} is accepted and
\* start_interactive_session, called with the one start_url the handler
\* knows, opens rrweb.js.
websocket_record_session(task_id, found) ==
    /\ rpc = "idle"
    /\ rec_task' = task_id
    /\ script' = IF found THEN "read" ELSE "missing"
    /\ IF found
       THEN /\ rpc' = RecordStages[1]
            /\ ws_sent' = ws_sent
       ELSE \E ok \in BOOLEAN :
              /\ ws_sent' = SendText(ws_sent, "error", ok)
              /\ rpc' = IF ok THEN AfterMissingScript ELSE "raised"
    /\ UNCHANGED rec_browser
    /\ UNCHANGED <<storeVars, passVars, thinkVars>>

\* An await before wait_for_event returns; launch leaves a browser open.
RecordAdvance ==
    /\ rpc \in Range(RecordStages) \ {RecordStages[Len(RecordStages)]}
    /\ rpc' = StageAfter(RecordStages, rpc)
    /\ rec_browser' = IF rpc = "launch" THEN "open" ELSE rec_browser
    /\ UNCHANGED <<rec_task, script, ws_sent>>
    /\ UNCHANGED <<storeVars, passVars, thinkVars>>

\* An await raises: the exception leaves the async with block and is logged
\* by websocket_record_session.
RecordRaise ==
    /\ rpc \in Range(RecordStages)
    /\ rpc' = "raised"
    /\ rec_browser' = ExitPlaywright(rec_browser)
    /\ UNCHANGED <<rec_task, script, ws_sent>>
    /\ UNCHANGED <<storeVars, passVars, thinkVars>>

\* rrweb emits an event: the page calls send_event_to_backend, which sends
\* it on the socket.  A send that raises fails the page's call, not the
\* session.
send_event_to_frontend(ok) ==
    /\ rpc = "wait_for_event"
    /\ Len(ws_sent) < MaxEvents
    /\ ws_sent' = SendText(ws_sent, "event", ok)
    /\ UNCHANGED <<rpc, rec_task, script, rec_browser>>
    /\ UNCHANGED <<storeVars, passVars, thinkVars>>

\* The page is closed: wait_for_event returns and the session ends.
PageClosed ==
    /\ rpc = "wait_for_event"
    /\ rpc' = "returned"
    /\ rec_browser' = ExitPlaywright(rec_browser)
    /\ UNCHANGED <<rec_task, script, ws_sent>>
    /\ UNCHANGED <<storeVars, passVars, thinkVars>>

NextRecord ==
    \/ \E id \in RecordTaskIds, found \in BOOLEAN : websocket_record_session(id, found)
    \/ RecordAdvance
    \/ RecordRaise
    \/ \E ok \in BOOLEAN : send_event_to_frontend(ok)
    \/ PageClosed

SpecRecord == Init /\ [][NextRecord]_vars

(***************************************************************************)
(* The claims.                                                             *)
(***************************************************************************)
Row(table, task_id) == CHOOSE r \in Range(table) : r.id = task_id

\* C1: every create request answers with a stored task whose status is
\* pending and whose non-empty id is the id of no task created before.
C1_CreateYieldsFreshId ==
    [][last'.op = "create_task" =>
          /\ last'.code = 200
          /\ last'.id # <<>>
          /\ last'.id \notin Ids(tasks)
          /\ last'.id \in Ids(tasks')
          /\ Row(tasks', last'.id).status = "pending"]_vars

\* The order of the statuses that C2 names.
Rank(status) == CASE status = "pending" -> 0
                  [] status = "trained" -> 1
                  [] status = "notified" -> 2

\* C2 as stated: no step moves the status of a task backward in the order
\* pending, trained, notified.
C2_NeverBackward ==
    [][\A i \in DOMAIN tasks :
          Rank(tasks'[i].status) >= Rank(tasks[i].status)]_vars

\* C2 as amended: the status of a task never returns to pending, and the
\* one backward step is notified to trained, made by complete_training.
C2_NeverBackToPending ==
    [][\A i \in DOMAIN tasks :
          /\ tasks'[i].id = tasks[i].id
          /\ tasks[i].status # "pending" => tasks'[i].status # "pending"
          /\ Rank(tasks'[i].status) < Rank(tasks[i].status) =>
                /\ tasks[i].status = "notified"
                /\ tasks'[i].status = "trained"
                /\ last'.op = "complete_training"
                /\ last'.id = tasks[i].id]_vars

\* A notified task has been trained.
C2_Witness ==
    /\ last.op = "complete_training"
    /\ last.code = 200
    /\ last.was = "notified"
    /\ Row(tasks, last.id).status = "trained"

\* C3: complete_training with an id that no stored task has answers 404 and
\* leaves both tables as they were.
C3_UnknownIdNotFound ==
    [][(last'.op = "complete_training" /\ last'.id \notin Ids(tasks)) =>
          /\ last'.code = 404
          /\ tasks' = tasks
          /\ push_tokens' = push_tokens]_vars

\* An unknown id was refused while both tables hold rows.
C3_Witness ==
    /\ last.op = "complete_training"
    /\ last.code = 404
    /\ last.id \notin Ids(tasks)
    /\ tasks # <<>>
    /\ push_tokens # <<>>

\* C4: complete_training with the id of a stored task, whatever its status,
\* stores the action plan (as JSON text) and the transcript and sets the
\* status to trained, and the same call made again changes nothing.
C4_TrainingStoredIdempotent ==
    [][\A id \in TaskIdInputs, p \in TrainingPayloads :
          (id \in Ids(tasks)
             /\ complete_task_training(id, p.action_plan, p.transcript)) =>
            /\ last'.code = 200
            /\ Row(tasks', id) =
                  [Row(tasks, id) EXCEPT
                     !.action_plan_json = JsonDumps(p.action_plan),
                     !.training_transcript = p.transcript,
                     !.status = "trained"]
            /\ \A i \in DOMAIN tasks : tasks[i].id # id => tasks'[i] = tasks[i]
            /\ LET again == UpdateTraining(tasks', id, JsonDumps(p.action_plan),
                                           p.transcript)
               IN  again.rowcount # 0 /\ again.rows = tasks']_vars

\* A notified task and a trained task have both been trained (again).
C4_Witness ==
    /\ last.op = "complete_training"
    /\ last.code = 200
    /\ last.was = "trained"
    /\ Row(tasks, last.id).action_plan_json = JsonDumps(<< <<99>>, <<116>> >>)
    /\ \E r \in Range(tasks) : r.id # last.id /\ r.status = "notified"

\* C5: push_tokens holds at most one row for an owner; a registration makes
\* the owner's row hold the token just given and leaves the rows of the
\* other owners as they were, and nothing else writes the table.
C5_TokenUpsert ==
    [][/\ \A i, j \in DOMAIN push_tokens' :
             push_tokens'[i].user_id = push_tokens'[j].user_id => i = j
       /\ push_tokens' # push_tokens => last'.op = "register_push_token"
       /\ \A q \in PushTokenRequests :
             register_push_token(q.user_id, q.token) =>
               /\ \E r \in Range(push_tokens') :
                     r.user_id = q.user_id /\ r.token = q.token
               /\ {r \in Range(push_tokens') : r.user_id # q.user_id}
                    = {r \in Range(push_tokens) : r.user_id # q.user_id}]_vars

\* The owner u1 registered again, with another token, beside the owner u2.
C5_Witness ==
    /\ last.op = "register_push_token"
    /\ push_tokens = << [user_id |-> "u2", token |-> "k1"],
                        [user_id |-> "u1", token |-> "k2"] >>

\* What the claims call due: the instant the due_time denotes has come.
Due(r, t) == r.due_time # NULL /\ Instant(r.due_time) <= t

HasToken(user_id) == \E k \in Range(push_tokens) : k.user_id = user_id
SentFor(log, task_id) == {i \in DOMAIN log : log[i].task_id = task_id}

\* C6: a pass of the scheduler fetches exactly the pending tasks whose
\* due_time is set and not later than the time of the pass.
C6_SelectsExactlyDue ==
    [][last'.op = "check_reminders" =>
          {r.id : r \in Range(due_reminders')}
            = {r.id : r \in {x \in Range(tasks) : Due(x, now) /\ x.status = "pending"}}]_vars

\* C7: in a pass, a due pending task whose owner has a token and whose
\* delivery succeeds is handed to the provider exactly once, with its title
\* as body and the owner's token, and is notified after the pass.
C7_DeliveredOnceAndNotified ==
    [][last'.op = "check_reminders" =>
          \A r \in Range(tasks) :
             (/\ Due(r, now)
              /\ r.status = "pending"
              /\ HasToken(r.user_id)
              /\ \E i \in SentFor(sent', r.id) : sent'[i].ok) =>
               /\ Cardinality(SentFor(sent', r.id)) = 1
               /\ \A i \in SentFor(sent', r.id) :
                     /\ sent'[i].body = r.title
                     /\ \E k \in Range(push_tokens) :
                           k.user_id = r.user_id /\ k.token = sent'[i].token
               /\ Row(tasks', r.id).status = "notified"]_vars

\* A pass delivered for two tasks of different owners and titles.
C7_Witness ==
    /\ last.op = "check_reminders"
    /\ Len(sent) = 2
    /\ sent[1].ok /\ sent[2].ok
    /\ sent[1].body # sent[2].body
    /\ sent[1].token # sent[2].token
    /\ \A r \in Range(tasks) : r.status = "notified"

\* C8: a pass leaves a due pending task whose owner has no token pending
\* and hands nothing to the provider for it.
C8_NoTokenNoDelivery ==
    [][last'.op = "check_reminders" =>
          \A r \in Range(tasks) :
             (Due(r, now) /\ r.status = "pending" /\ ~HasToken(r.user_id)) =>
               /\ SentFor(sent', r.id) = {}
               /\ Row(tasks', r.id) = r]_vars

\* A pass fetched a task whose owner has no token, and delivered for
\* another task.
C8_Witness ==
    /\ last.op = "check_reminders"
    /\ \E r \in Range(due_reminders) :
          ~HasToken(r.user_id) /\ Row(tasks, r.id).status = "pending"
    /\ Len(sent) = 1

\* The first half of C9: a failed send leaves the row of the task as it was.
FailureKeepsRow ==
    last'.op = "check_reminders" =>
       \A i \in DOMAIN sent' :
          ~sent'[i].ok => Row(tasks', sent'[i].task_id) = Row(tasks, sent'[i].task_id)

\* C9 as stated: a failed send leaves the task as it was, and the next pass
\* sends for that task again.
C9_RetriedNextTick ==
    [][/\ FailureKeepsRow
       /\ last'.op = "check_reminders" =>
             \A i \in DOMAIN sent :
                ~sent[i].ok => SentFor(sent', sent[i].task_id) # {}]_vars

\* C9 as amended: a failed send leaves the task as it was, and the next pass
\* sends for that task again if the task is still pending then.
C9_RetriedWhilePending ==
    [][/\ FailureKeepsRow
       /\ last'.op = "check_reminders" =>
             \A i \in DOMAIN sent :
                (~sent[i].ok /\ Row(tasks, sent[i].task_id).status = "pending") =>
                   SentFor(sent', sent[i].task_id) # {}]_vars

\* The send for a task failed in one pass and again in the next.
C9_Witness ==
    /\ last.op = "check_reminders"
    /\ ticks = 2
    /\ \E i \in DOMAIN sent :
          /\ sent[i].task_id \in retried
          /\ ~sent[i].ok
          /\ Row(tasks, sent[i].task_id).status = "pending"

\* C10: the first pass of the scheduler runs when the service starts, before
\* any time passes.
C10_FirstTickAtStart ==
    [][(started /\ ticks = 0) => now' = now]_vars

\* C11 as stated: one /execute/think request makes at most 5 planner
\* decisions, that is at most 5 calls of the model by the planner.
C11_AtMostFiveCalls == llm_calls <= MaxIterations

\* C11 amended: one /execute/think request starts at most 5 runs of
\* planner_agent and counts at most 5 of them.
C11_AtMostFiveRuns == runs <= MaxIterations /\ times_looped <= MaxIterations

C11_Witness ==
    /\ tpc = "done"
    /\ runs = MaxIterations
    /\ times_looped = MaxIterations
    /\ llm_calls > MaxIterations

\* The last observation of the loop: the last tool result, the empty
\* page_observation of the session before any.
LastObservation == IF tool_result = Unset THEN page_observation ELSE tool_result

C13_ToolNeverRaises ==
    [][(tpc = "tool" /\ tpc' # "tool")
         => /\ tpc' = "llm"
            /\ IF tool_failed_at' = "none"
               THEN tool_result' = Obs("success", tool_url)
               ELSE /\ tool_result'.kind = "error"
                    /\ tool_result'.val # ""]_vars

C13_Witness ==
    /\ tpc = "llm"
    /\ tool_failed_at = "close"
    /\ tool_result.kind = "error"

\* C14: when a recording session has ended, by return or by an exception at
\* any await, a browser it launched is not open any more.
C14_BrowserReleased ==
    (rpc \in {"returned", "raised"}) => rec_browser # "open"

C14_Witness ==
    /\ rpc = "raised"
    /\ rec_browser = "closed"
    /\ \E i \in DOMAIN ws_sent : ws_sent[i].kind = "event" /\ ~ws_sent[i].ok

\* C15: when rrweb.js is missing, the session sends exactly one message,
\* the error event, launches no browser and does nothing more: it has
\* returned once the send has.
C15_MissingScript ==
    (script = "missing")
        => /\ Len(ws_sent) = 1
           /\ ws_sent[1].kind = "error"
           /\ rec_browser = "none"
           /\ rpc = IF ws_sent[1].ok THEN "returned" ELSE "raised"

C15_Witness ==
    /\ script = "missing"
    /\ rpc = "returned"
    /\ ws_sent = <<[kind |-> "error", ok |-> TRUE]>>

\* C16: when use_browser_and_get_content has returned for a fetch, the
\* session's page_observation is its result, and the model call after a
\* fetch is given that result as page_observation, not the empty one.
C16_ObservationFollowsFetch ==
    [][/\ (tpc = "tool" /\ tpc' = "llm") => page_observation' = tool_result'
       /\ (llm_calls' = llm_calls + 1 /\ tool_result.kind \in {"success", "error"})
             => prompt'.page_observation = tool_result]_vars

\* C17 as stated: once finish_task has been called the model is not called
\* again and no fetch is made, and the request returns the reason given to
\* finish_task.
C17_FinishIsTerminal ==
    [][/\ escalate => (llm_calls' = llm_calls /\ tpc' # "tool")
       /\ (tpc' = "done" /\ escalate')
             => final_result' = Obs("text", finish_reason')]_vars

\* C17 amended: once finish_task has been called no further run of the
\* planner is started or counted, and the call of finish_task leaves
\* final_result as it was: the request returns the last text answer of the
\* model, or the default text.
C17_FinishStopsRuns ==
    [][/\ escalate => (runs' = runs /\ times_looped' = times_looped)
       /\ (llm_calls' = llm_calls + 1 /\ last_response'.kind = "finish")
             => final_result' = final_result
       /\ (llm_calls' = llm_calls + 1 /\ last_response'.kind = "text")
             => final_result' = Obs("text", last_response'.val)
       /\ (escalate /\ llm_calls' = llm_calls + 1 /\ last_response'.kind = "text")
             => tpc' = "done"]_vars

C17_Witness ==
    /\ tpc = "done"
    /\ escalate
    /\ runs < MaxIterations
    /\ last_response = Obs("text", "t")
    /\ final_result.val # finish_reason

C19_FailureDoesNotStopPass ==
    [][(ticks' = ticks + 1)
         => /\ due_reminders' = SelectDue(tasks, IsoFormat(now))
            /\ \A i \in DOMAIN due_reminders' :
                  LET r == due_reminders'[i]
                      s == SentFor(sent', r.id)
                  IN  IF HasToken(r.user_id)
                      THEN /\ Cardinality(s) = 1
                           /\ \A j \in s :
                                 sent'[j].ok => Row(tasks', r.id).status = "notified"
                      ELSE s = {}]_vars

C19_Witness ==
    /\ last.op = "check_reminders"
    /\ Len(due_reminders) = 2
    /\ Len(sent) = 2
    /\ ~sent[1].ok
    /\ sent[2].ok
    /\ Row(tasks, sent[1].task_id).status = "pending"
    /\ Row(tasks, sent[2].task_id).status = "notified"

\* C20: a pass of the scheduler hands a task to the provider at most once,
\* and never a task an earlier pass's send has succeeded for: a task has at
\* most one successful delivery.
C20_DeliveredAtMostOnce ==
    [][(ticks' = ticks + 1)
         => \A i \in DOMAIN sent' :
               /\ sent'[i].task_id \notin delivered
               /\ SentFor(sent', sent'[i].task_id) = {i}]_vars

C20_Witness ==
    /\ last.op = "check_reminders"
    /\ ticks = 2
    /\ \E id \in delivered :
          /\ SentFor(sent, id) = {}
          /\ Row(tasks, id).status = "notified"
          /\ Due(Row(tasks, id), now)
          /\ HasToken(Row(tasks, id).user_id)

\* C21: a complete_training that succeeds leaves the task trained, a
\* trained task stays trained in every step, and a pass of the scheduler
\* neither fetches a trained task nor hands it to the provider: once a
\* pending task is trained, no later pass sends its reminder or marks it
\* notified.
C21_TrainedNeverReminded ==
    [][/\ (last'.op = "complete_training" /\ last'.code = 200)
             => Row(tasks', last'.id).status = "trained"
       /\ \A id \in Ids(tasks) :
             Row(tasks, id).status = "trained"
                => /\ id \in Ids(tasks')
                   /\ Row(tasks', id).status = "trained"
                   /\ (ticks' = ticks + 1)
                         => /\ SentFor(sent', id) = {}
                            /\ \A i \in DOMAIN due_reminders' :
                                  due_reminders'[i].id # id]_vars

C21_Witness ==
    /\ last.op = "check_reminders"
    /\ sent # <<>>
    /\ \E r \in Range(tasks) :
          /\ r.status = "trained"
          /\ r.id \notin delivered
          /\ Due(r, now)
          /\ HasToken(r.user_id)
          /\ SentFor(sent, r.id) = {}

====
